---- MODULE Spec2Model ----
(***************************************************************************)
(* Model of src/main.py: a batch script that reads URLs from a CSV file    *)
(* and asks two search-engine APIs (Yandex Webmaster, Google Indexing) to  *)
(* reindex each of them, writing one result row per URL to an output CSV.  *)
(*                                                                         *)
(* Text is modelled as a sequence of one-character strings, so that        *)
(* str.strip, urlparse and the f-string of build_yandex_host_id are        *)
(* computed character by character.  The Russian status literals of the    *)
(* source are transliterated to ASCII.                                     *)
(***************************************************************************)
EXTENDS Naturals, Integers, Sequences, FiniteSets, TLC

VARIABLES
    pc,             \* position inside process_urls (or inside one submitter call)
    SITE_URL,       \* module constant SITE_URL (line 32), text
    host_id,        \* local host_id of process_urls (line 222)
    user_id,        \* local user_id of process_urls (line 223)
    inputFile,      \* the file at input_file: missing, or the header row and data rows of its text
    outputFile,     \* the file at output_file: NoFile, an old content, or written rows
    rowIndex,       \* how many rows the csv reader has yielded so far
    total_urls,     \* local counter (line 247)
    processed_urls, \* local counter (line 248)
    url,            \* local url of the current iteration (line 252)
    action,         \* parameter action of publish_url_google (line 158)
    yandex,         \* (status_yandex, error_yandex) of the current iteration
    google,         \* (status_google, error_google) returned by the last call
    lastResponse,   \* what the network answered to the last submitter call
    results,        \* local list results (line 218)
    calls           \* every resolver and network call made so far, in order

vars == <<pc, SITE_URL, host_id, user_id, inputFile, outputFile, rowIndex,
          total_urls, processed_urls, url, action, yandex, google,
          lastResponse, results, calls>>

-----------------------------------------------------------------------------
(* Bounds of the model *)

MaxRows == 2        \* data rows in the input file
MaxAuthLen == 3     \* characters of the authority part of a generated site URL

-----------------------------------------------------------------------------
(* Text helpers *)

RECURSIVE SeqsUpTo(_, _)
SeqsUpTo(S, n) ==
    IF n = 0 THEN {<<>>}
    ELSE LET shorter == SeqsUpTo(S, n - 1)
         IN  shorter \cup {Append(s, c) : s \in shorter, c \in S}

Whitespace == {" "}

RECURSIVE LStrip(_)
LStrip(s) == IF s # <<>> /\ Head(s) \in Whitespace THEN LStrip(Tail(s)) ELSE s

RECURSIVE RStrip(_)
RStrip(s) ==
    IF s # <<>> /\ s[Len(s)] \in Whitespace
    THEN RStrip(SubSeq(s, 1, Len(s) - 1))
    ELSE s

\* str.lstrip() in place of str.strip(): trailing whitespace is kept
strip_left_only(s) == LStrip(s)

\* str.strip() with no argument
strip(s) == RStrip(LStrip(s))

\* str.replace(ch, "") for a one-character ch
RECURSIVE RemoveAll(_, _)
RemoveAll(s, ch) ==
    IF s = <<>> THEN <<>>
    ELSE IF Head(s) = ch THEN RemoveAll(Tail(s), ch)
    ELSE <<Head(s)>> \o RemoveAll(Tail(s), ch)

\* str.find(ch), 1-based; 0 when ch does not occur
Find(s, ch) ==
    IF \E i \in 1..Len(s) : s[i] = ch
    THEN CHOOSE i \in 1..Len(s) : s[i] = ch /\ \A j \in 1..(i - 1) : s[j] # ch
    ELSE 0

UpperLetters == {"H", "T", "P", "S"}
LowerLetters == {"h", "t", "p", "s", "f", "a"}
Letters == UpperLetters \cup LowerLetters
Digits == {"8"}
\* urllib.parse.scheme_chars
scheme_chars == Letters \cup Digits \cup {"+", "-", "."}

LowerChar(c) ==
    CASE c = "H" -> "h"
      [] c = "T" -> "t"
      [] c = "P" -> "p"
      [] c = "S" -> "s"
      [] OTHER -> c

\* str.lower()
lower(s) == [i \in 1..Len(s) |-> LowerChar(s[i])]

-----------------------------------------------------------------------------
(* urllib.parse.urlparse, as far as scheme and netloc go *)

\* the "scheme:" prefix is split off when it starts with a letter and holds
\* scheme characters only
HasScheme(u) ==
    LET i == Find(u, ":")
    IN  /\ i > 1
        /\ u[1] \in Letters
        /\ \A j \in 1..(i - 1) : u[j] \in scheme_chars

AfterScheme(u) == IF HasScheme(u) THEN SubSeq(u, Find(u, ":") + 1, Len(u)) ELSE u

\* _splitnetloc(url, 2): up to the first of "/", "?", "#"
SplitNetloc(rest) ==
    LET body == SubSeq(rest, 3, Len(rest))
        stops == {i \in 1..Len(body) : body[i] \in {"/", "?", "#"}}
        stop == IF stops = {} THEN Len(body) + 1
                ELSE CHOOSE i \in stops : \A j \in stops : i <= j
    IN  SubSeq(body, 1, stop - 1)

urlparse(u) ==
    LET rest == AfterScheme(u)
    IN  [scheme |-> IF HasScheme(u) THEN lower(SubSeq(u, 1, Find(u, ":") - 1)) ELSE <<>>,
         netloc |-> IF Len(rest) >= 2 /\ SubSeq(rest, 1, 2) = <<"/", "/">>
                    THEN SplitNetloc(rest) ELSE <<>>]

-----------------------------------------------------------------------------
(* build_yandex_host_id *)

https == <<"h", "t", "t", "p", "s">>
http == <<"h", "t", "t", "p">>
Port443 == <<"4", "4", "3">>
Port80 == <<"8", "0">>

Raised == [ok |-> FALSE, value |-> <<>>]
Returned(v) == [ok |-> TRUE, value |-> v]

\* the port is read from the authority when one is written there
build_yandex_host_id_port_from_url(site_url) ==
    LET parsed == urlparse(site_url)
        scheme == parsed.scheme
        netloc == parsed.netloc
        colon == Find(netloc, ":")
        port == IF colon > 0 /\ colon < Len(netloc) THEN SubSeq(netloc, colon + 1, Len(netloc))
                ELSE IF scheme = https THEN Port443 ELSE Port80
    IN  IF scheme = <<>> \/ netloc = <<>>
        THEN Raised
        ELSE Returned(scheme \o <<":">> \o netloc \o <<":">> \o port)

build_yandex_host_id(site_url) ==
    LET parsed == urlparse(site_url)
        scheme == parsed.scheme
        netloc == parsed.netloc
        port == IF scheme = https THEN Port443 ELSE Port80
    IN  IF scheme = <<>> \/ netloc = <<>>
        THEN Raised
        ELSE Returned(scheme \o <<":">> \o netloc \o <<":">> \o port)

-----------------------------------------------------------------------------
(* Values shared by both submitters *)

\* Python None, the empty string, and the three status literals
None == <<"None">>
EmptyStr == <<>>
USPESHNO == "uspeshno"
NEUSPESHNO == "neuspeshno"
USPESHNO_BEZ_TASK_ID == "uspeshno (bez task_id)"

\* what a submitter returns: the pair (status, error)
Outcome(s, e) == [status |-> s, error |-> e]

\* str(e) of the exception a failed request raised
StrExc(name) == <<"str(e)", name>>

\* an HTTP exchange as the requests library reports it:
\*   kind = "conn_error"  requests.post/get raised (no response at all)
\*   kind = "http_error"  a response arrived and raise_for_status() raised
\*   kind = "ok"          raise_for_status() passed
\* json says whether response.json() can decode the body.
Absent == "absent"

-----------------------------------------------------------------------------
(* get_yandex_user_id *)

UserIds == {"u1", "u2"}

UserResponses ==
    {[kind |-> "conn_error", json |-> FALSE, user_id |-> Absent],
     [kind |-> "http_error", json |-> TRUE, user_id |-> Absent],
     [kind |-> "ok", json |-> FALSE, user_id |-> Absent],
     [kind |-> "ok", json |-> TRUE, user_id |-> Absent]}
    \cup {[kind |-> "ok", json |-> TRUE, user_id |-> u] : u \in UserIds}

\* returns data["user_id"]; every other path raises
get_yandex_user_id(resp) ==
    IF resp.kind = "ok" /\ resp.json /\ resp.user_id # Absent
    THEN [ok |-> TRUE, value |-> resp.user_id]
    ELSE [ok |-> FALSE, value |-> ""]

-----------------------------------------------------------------------------
(* What response.json() can return, and what the code then asks of it *)

\* the JSON values: an object, an array, a string, or one of the values
\* Python decodes to None, int/float or bool
JsonObject == "object"
JsonArray == "array"
JsonString == "string"
JsonScalars == {"null", "number", "boolean"}
JsonShapes == {JsonObject, JsonArray, JsonString} \cup JsonScalars

\* what an array or a string holds in place of a key: the key's name is one
\* of the array's elements, or a substring of the string
Member == "member"

\* `key in value`: a dict tests its keys, a list its elements, a str its
\* substrings; None, a number and a bool raise TypeError
SupportsIn(shape) == shape \notin JsonScalars

\* `value[key]` with a str key: only a dict has it; a list and a str raise
\* TypeError
SupportsKey(shape) == shape = JsonObject

-----------------------------------------------------------------------------
(* send_reindex_yandex *)

ErrorValues == {"e1", "e2"}
TaskIds == {"t1"}

\* the decoded body: its shape, and for "error" and "task_id" what
\* `key in body` finds: the value under the key in an object, Member in an
\* array or string that holds the key's name, Absent otherwise
YandexBodies ==
    {[shape |-> JsonObject, error |-> e, task_id |-> t] :
        e \in {Absent} \cup ErrorValues, t \in {Absent} \cup TaskIds}
    \cup {[shape |-> s, error |-> e, task_id |-> t] :
        s \in {JsonArray, JsonString}, e \in {Absent, Member}, t \in {Absent, Member}}
    \cup {[shape |-> s, error |-> Absent, task_id |-> Absent] : s \in JsonScalars}
NoYandexBody == [shape |-> JsonObject, error |-> Absent, task_id |-> Absent]

YandexResponses ==
    {[kind |-> "conn_error", json |-> FALSE, body |-> NoYandexBody],
     [kind |-> "http_error", json |-> FALSE, body |-> NoYandexBody],
     [kind |-> "ok", json |-> FALSE, body |-> NoYandexBody]}
    \cup {[kind |-> k, json |-> TRUE, body |-> b] : k \in {"http_error", "ok"}, b \in YandexBodies}

\* json.dumps of a decoded body
JsonDumpsYandex(b) == <<"json.dumps", b.shape, b.error, b.task_id>>

\* an undecodable body is taken for an empty one instead of raising
send_reindex_yandex_lenient(uid, hid, u, resp) ==
    IF resp.kind = "conn_error"
    THEN Outcome(NEUSPESHNO, StrExc("ConnectionError"))
    ELSE IF resp.kind = "http_error"
    THEN IF resp.json
         THEN Outcome(NEUSPESHNO, JsonDumpsYandex(resp.body))
         ELSE Outcome(NEUSPESHNO, StrExc("HTTPError"))
    ELSE IF ~resp.json
    THEN Outcome(USPESHNO_BEZ_TASK_ID, None)
    ELSE IF ~SupportsIn(resp.body.shape)
    THEN Outcome(NEUSPESHNO, StrExc("TypeError"))
    ELSE IF resp.body.error # Absent
    THEN IF SupportsKey(resp.body.shape)
         THEN Outcome(NEUSPESHNO, <<"Oshibka API: ", resp.body.error>>)
         ELSE Outcome(NEUSPESHNO, StrExc("TypeError"))
    ELSE IF resp.body.task_id # Absent
    THEN Outcome(USPESHNO, None)
    ELSE Outcome(USPESHNO_BEZ_TASK_ID, None)

\* the task_id test comes before the error test
send_reindex_yandex_task_first(uid, hid, u, resp) ==
    IF resp.kind = "conn_error"
    THEN Outcome(NEUSPESHNO, StrExc("ConnectionError"))
    ELSE IF resp.kind = "http_error"
    THEN IF resp.json
         THEN Outcome(NEUSPESHNO, JsonDumpsYandex(resp.body))
         ELSE Outcome(NEUSPESHNO, StrExc("HTTPError"))
    ELSE IF ~resp.json
    THEN Outcome(NEUSPESHNO, StrExc("JSONDecodeError"))
    ELSE IF ~SupportsIn(resp.body.shape)
    THEN Outcome(NEUSPESHNO, StrExc("TypeError"))
    ELSE IF resp.body.task_id # Absent
    THEN Outcome(USPESHNO, None)
    ELSE IF resp.body.error # Absent
    THEN IF SupportsKey(resp.body.shape)
         THEN Outcome(NEUSPESHNO, <<"Oshibka API: ", resp.body.error>>)
         ELSE Outcome(NEUSPESHNO, StrExc("TypeError"))
    ELSE Outcome(USPESHNO_BEZ_TASK_ID, None)

send_reindex_yandex(uid, hid, u, resp) ==
    IF resp.kind = "conn_error"
    THEN Outcome(NEUSPESHNO, StrExc("ConnectionError"))              \* lines 152-155
    ELSE IF resp.kind = "http_error"
    THEN IF resp.json
         THEN Outcome(NEUSPESHNO, JsonDumpsYandex(resp.body))        \* line 148
         ELSE Outcome(NEUSPESHNO, StrExc("HTTPError"))               \* line 150
    ELSE IF ~resp.json
    THEN Outcome(NEUSPESHNO, StrExc("JSONDecodeError"))              \* lines 127, 152-155
    ELSE IF ~SupportsIn(resp.body.shape)
    THEN Outcome(NEUSPESHNO, StrExc("TypeError"))                    \* `in` of line 131 raises
    ELSE IF resp.body.error # Absent
    THEN IF SupportsKey(resp.body.shape)
         THEN Outcome(NEUSPESHNO, <<"Oshibka API: ", resp.body.error>>)  \* line 132
         ELSE Outcome(NEUSPESHNO, StrExc("TypeError"))               \* ['error'] of line 132 raises
    ELSE IF resp.body.task_id # Absent
    THEN Outcome(USPESHNO, None)                                     \* line 136
    ELSE Outcome(USPESHNO_BEZ_TASK_ID, None)                         \* line 138

-----------------------------------------------------------------------------
(* get_access_token and publish_url_google *)

URL_UPDATED == "URL_UPDATED"
URL_DELETED == "URL_DELETED"
UpdateTypes == {URL_UPDATED, URL_DELETED}

\* the values a "type" field is given: the two notification types and a
\* JSON null, which the f-string of line 190 prints as None
JsonNull == "None"
TypeValues == UpdateTypes \cup {JsonNull}

\* what `key in value` finds in a value of the given shape, the found
\* values of an object being drawn from found
Lookups(shape, found) ==
    IF shape = JsonObject THEN {Absent} \cup found
    ELSE IF shape \in {JsonArray, JsonString} THEN {Absent, Member}
    ELSE {Absent}

\* the decoded body, level by level:
\*   shape         the shape of the body
\*   metadata      what "urlNotificationMetadata" in body finds: the shape
\*                 of the value under the key (body an object), Member
\*                 (body an array or string holding the name), or Absent
\*   latestUpdate  the same for "latestUpdate" in the metadata value
\*   type          the same for "type" in the latestUpdate value, an object
\*                 giving the value under the key
GoogleBodies ==
    UNION {UNION {UNION {
        {[shape |-> s, metadata |-> m, latestUpdate |-> l, type |-> t] :
            t \in Lookups(l, TypeValues)} :
            l \in Lookups(m, JsonShapes)} :
            m \in Lookups(s, JsonShapes)} :
            s \in JsonShapes}
NoGoogleBody == [shape |-> JsonObject, metadata |-> Absent, latestUpdate |-> Absent, type |-> Absent]

\* token says whether credentials.refresh succeeded; when it did not, no
\* request is sent
NoToken == [token |-> FALSE, kind |-> "none", json |-> FALSE, body |-> NoGoogleBody]

GoogleResponses ==
    {NoToken,
     [token |-> TRUE, kind |-> "conn_error", json |-> FALSE, body |-> NoGoogleBody],
     [token |-> TRUE, kind |-> "http_error", json |-> FALSE, body |-> NoGoogleBody],
     [token |-> TRUE, kind |-> "ok", json |-> FALSE, body |-> NoGoogleBody]}
    \cup {[token |-> TRUE, kind |-> k, json |-> TRUE, body |-> b] :
            k \in {"http_error", "ok"}, b \in GoogleBodies}

JsonDumpsGoogle(b) == <<"json.dumps", b.shape, b.metadata, b.latestUpdate, b.type>>

\* get_access_token: returns the token or re-raises
get_access_token(resp) == resp.token

\* the call either raises (raised = TRUE, nothing returned) or returns a pair
GoogleRaised == [raised |-> TRUE, status |-> "", error |-> None]
GoogleReturned(s, e) == [raised |-> FALSE, status |-> s, error |-> e]

\* lines 182-194 on a decoded body, with the comparison of line 187 made
\* against expected
classify_google(b, act, expected) ==
    IF ~SupportsIn(b.shape)
    THEN GoogleReturned(NEUSPESHNO, StrExc("TypeError"))                \* `in` of line 182 raises
    ELSE IF b.metadata = Absent
    THEN GoogleReturned(NEUSPESHNO, <<"Neozhidannyy format otveta ot Google API">>) \* line 194
    ELSE IF ~SupportsKey(b.shape)
    THEN GoogleReturned(NEUSPESHNO, StrExc("TypeError"))                \* line 183 raises
    ELSE IF ~SupportsIn(b.metadata)
    THEN GoogleReturned(NEUSPESHNO, StrExc("TypeError"))                \* first `in` of line 186 raises
    ELSE IF b.latestUpdate = Absent
    THEN GoogleReturned(USPESHNO, None)                                 \* line 192
    ELSE IF ~SupportsKey(b.metadata)
    THEN GoogleReturned(NEUSPESHNO, StrExc("TypeError"))                \* metadata["latestUpdate"] raises
    ELSE IF ~SupportsIn(b.latestUpdate)
    THEN GoogleReturned(NEUSPESHNO, StrExc("TypeError"))                \* second `in` of line 186 raises
    ELSE IF b.type = Absent
    THEN GoogleReturned(USPESHNO, None)                                 \* line 192
    ELSE IF ~SupportsKey(b.latestUpdate)
    THEN GoogleReturned(NEUSPESHNO, StrExc("TypeError"))                \* ["type"] of line 187 raises
    ELSE IF b.type = expected
    THEN GoogleReturned(USPESHNO, None)                                 \* line 188
    ELSE GoogleReturned(NEUSPESHNO,
             <<"Ozhidalsya tip ", act, ", poluchen ", b.type>>)         \* line 190

\* the latest update type is compared with the literal URL_UPDATED, not
\* with the requested action
publish_url_google_fixed_type(u, act, resp) ==
    IF ~get_access_token(resp)
    THEN GoogleRaised
    ELSE IF resp.kind = "conn_error"
    THEN GoogleReturned(NEUSPESHNO, StrExc("ConnectionError"))
    ELSE IF resp.kind = "http_error"
    THEN IF resp.json
         THEN GoogleReturned(NEUSPESHNO, JsonDumpsGoogle(resp.body))
         ELSE GoogleReturned(NEUSPESHNO, StrExc("HTTPError"))
    ELSE IF ~resp.json
    THEN GoogleReturned(NEUSPESHNO, StrExc("JSONDecodeError"))
    ELSE classify_google(resp.body, act, URL_UPDATED)

publish_url_google(u, act, resp) ==
    IF ~get_access_token(resp)
    THEN GoogleRaised                                                   \* line 164, outside the try
    ELSE IF resp.kind = "conn_error"
    THEN GoogleReturned(NEUSPESHNO, StrExc("ConnectionError"))          \* lines 208-211
    ELSE IF resp.kind = "http_error"
    THEN IF resp.json
         THEN GoogleReturned(NEUSPESHNO, JsonDumpsGoogle(resp.body))    \* line 204
         ELSE GoogleReturned(NEUSPESHNO, StrExc("HTTPError"))           \* line 206
    ELSE IF ~resp.json
    THEN GoogleReturned(NEUSPESHNO, StrExc("JSONDecodeError"))          \* lines 178, 208-211
    ELSE classify_google(resp.body, act, act)                           \* lines 182-194

-----------------------------------------------------------------------------
(* The input file and csv.DictReader *)

BOM == "<U+FEFF>"
URL == <<"U", "R", "L">>

\* header rows of the modelled input files, as the text of the file has
\* them; the empty header is the empty file, for which
\* DictReader.fieldnames is None.  The first file starts with a byte order
\* mark, the third with two.
HeaderChoices ==
    {<<<<BOM, " ">> \o URL>>,
     <<<<"N">>, <<BOM>> \o URL \o <<" ">>>>,
     <<<<BOM, BOM, " ">> \o URL>>,
     <<<<"u", "r", "l">>>>,
     <<>>}

\* cells of the URL column
UrlCells == {<<>>, <<" ">>, <<"a">>, <<" ", "b", " ">>}
OtherCell == <<"n">>

\* data rows under a header of n columns: the leading cells are OtherCell,
\* the last column holds a URL cell; a row may stop short of the last column
RowsFor(n) ==
    IF n = 0 THEN {}
    ELSE {[i \in 1..n |-> IF i < n THEN OtherCell ELSE c] : c \in UrlCells}
         \cup {[i \in 1..k |-> OtherCell] : k \in 1..(n - 1)}

NoInputFile == [exists |-> FALSE, header |-> <<>>, rows |-> <<>>]

InputFiles ==
    {NoInputFile}
    \cup UNION {{[exists |-> TRUE, header |-> h, rows |-> r] :
                    r \in SeqsUpTo(RowsFor(Len(h)), MaxRows)} : h \in HeaderChoices}

\* line 235, encoding="utf-8-sig": the decoder drops one byte order mark at
\* the start of the file, that is at the start of the first header cell
utf_8_sig(header) ==
    IF header # <<>> /\ header[1] # <<>> /\ header[1][1] = BOM
    THEN [header EXCEPT ![1] = Tail(header[1])]
    ELSE header

\* lines 235-240: the header row DictReader reads from the decoded text,
\* then [f.strip().replace(BOM, "") for f in reader.fieldnames]
fieldnames(file) ==
    LET decoded == utf_8_sig(file.header)
    IN  [i \in 1..Len(decoded) |-> RemoveAll(strip(decoded[i]), BOM)]

HasUrlColumn(names) == \E i \in 1..Len(names) : names[i] = URL

\* dict(zip(fieldnames, row)) keeps the last column of a name; columns the
\* row does not reach are filled with restval = None
UrlColumn(names) == CHOOSE i \in 1..Len(names) : names[i] = URL /\ \A j \in (i + 1)..Len(names) : names[j] # URL

\* row.get("URL", ""): the key is always there, so the default is never used
RowGet(names, row) ==
    IF UrlColumn(names) <= Len(row)
    THEN [isNone |-> FALSE, text |-> row[UrlColumn(names)]]
    ELSE [isNone |-> TRUE, text |-> <<>>]

-----------------------------------------------------------------------------
(* The output file *)

OutputAbsent == [state |-> "absent", rows |-> <<>>]
OutputOld == [state |-> "old", rows |-> <<>>]
OutputWritten(rows) == [state |-> "written", rows |-> rows]

\* lines 264-270
ResultRow(u, y, g) ==
    [URL |-> u,
     Yandex_Status |-> y.status,
     Yandex_Error |-> IF y.error \in {None, EmptyStr} THEN EmptyStr ELSE y.error,
     Google_Status |-> g.status,
     Google_Error |-> IF g.error \in {None, EmptyStr} THEN EmptyStr ELSE g.error]

-----------------------------------------------------------------------------
(* The calls process_urls and the submitters make, as the outside sees them *)

Call(c, uid, hid, u, act) == [call |-> c, user_id |-> uid, host_id |-> hid, url |-> u, action |-> act]
BuildHostIdCall == Call("build_yandex_host_id", "", <<>>, <<>>, "")
GetUser == Call("GET /user", "", <<>>, <<>>, "")
PostRecrawl(uid, hid, u) == Call("POST recrawl/queue", uid, hid, u, "")
TokenRefresh == Call("token refresh", "", <<>>, <<>>, "")
PostPublish(u, act) == Call("POST urlNotifications:publish", "", <<>>, u, act)

\* the calls publish_url_google issues for a response
GoogleCalls(u, act, resp) ==
    IF get_access_token(resp) THEN <<TokenRefresh, PostPublish(u, act)>> ELSE <<TokenRefresh>>

NoResponse == [api |-> "none", resp |-> NoToken]

-----------------------------------------------------------------------------
(* process_urls *)

\* the responses the two APIs give during a run
RunYandexResponses ==
    {r \in YandexResponses :
        \/ ~r.json
        \/ r.kind = "ok" /\ r.body \in {[shape |-> JsonObject, error |-> "e1", task_id |-> Absent],
                                        [shape |-> JsonObject, error |-> Absent, task_id |-> "t1"]}}

\* the body of a notification the API accepted as URL_UPDATED
UpdatedBody ==
    [shape |-> JsonObject, metadata |-> JsonObject, latestUpdate |-> JsonObject,
     type |-> URL_UPDATED]

RunGoogleResponses ==
    {r \in GoogleResponses :
        \/ ~r.json /\ r.kind # "ok"
        \/ r.kind = "ok" /\ r.json /\ r.body = UpdatedBody}

RunSiteUrls ==
    {https \o <<":", "/", "/", "a", ":", "8", "/", "p">>,
     <<"a">>}

Init ==
    /\ pc = "build_host_id"
    /\ SITE_URL \in RunSiteUrls
    /\ host_id = <<>>
    /\ user_id = ""
    /\ inputFile \in InputFiles
    /\ outputFile \in {OutputAbsent, OutputOld}
    /\ rowIndex = 0
    /\ total_urls = 0
    /\ processed_urls = 0
    /\ url = <<>>
    /\ action = URL_UPDATED
    /\ yandex = Outcome("", None)
    /\ google = Outcome("", None)
    /\ lastResponse = NoResponse
    /\ results = <<>>
    /\ calls = <<>>

\* the input file is looked for before the identifiers are resolved
BuildHostId_file_first ==
    /\ pc = "build_host_id"
    /\ IF ~inputFile.exists
       THEN pc' = "no_input_file" /\ UNCHANGED <<host_id, calls>>
       ELSE LET r == build_yandex_host_id(SITE_URL)
            IN  /\ host_id' = r.value
                /\ pc' = IF r.ok THEN "get_user_id" ELSE "init_failed"
                /\ calls' = Append(calls, BuildHostIdCall)
    /\ UNCHANGED <<SITE_URL, user_id, inputFile, outputFile, rowIndex, total_urls,
                   processed_urls, url, action, yandex, google, lastResponse,
                   results>>

\* line 222; an exception leaves through lines 225-227
BuildHostId ==
    /\ pc = "build_host_id"
    /\ LET r == build_yandex_host_id(SITE_URL)
       IN  /\ host_id' = r.value
           /\ pc' = IF r.ok THEN "get_user_id" ELSE "init_failed"
    /\ calls' = Append(calls, BuildHostIdCall)
    /\ UNCHANGED <<SITE_URL, user_id, inputFile, outputFile, rowIndex, total_urls,
                   processed_urls, url, action, yandex, google, lastResponse,
                   results>>

\* a failed lookup is not re-raised: the run goes on without a user id
GetUserId_swallow ==
    /\ pc = "get_user_id"
    /\ \E resp \in UserResponses :
         LET r == get_yandex_user_id(resp)
         IN  /\ user_id' = r.value
             /\ pc' = "check_input"
    /\ calls' = Append(calls, GetUser)
    /\ UNCHANGED <<SITE_URL, host_id, inputFile, outputFile, rowIndex, total_urls,
                   processed_urls, url, action, yandex, google, lastResponse, results>>

\* line 223; an exception leaves through lines 225-227
GetUserId ==
    /\ pc = "get_user_id"
    /\ \E resp \in UserResponses :
         LET r == get_yandex_user_id(resp)
         IN  /\ user_id' = r.value
             /\ pc' = IF r.ok THEN "check_input" ELSE "init_failed"
    /\ calls' = Append(calls, GetUser)
    /\ UNCHANGED <<SITE_URL, host_id, inputFile, outputFile, rowIndex, total_urls,
                   processed_urls, url, action, yandex, google, lastResponse, results>>

\* lines 230-232
CheckInput ==
    /\ pc = "check_input"
    /\ pc' = IF inputFile.exists THEN "read_header" ELSE "no_input_file"
    /\ UNCHANGED <<SITE_URL, host_id, user_id, inputFile, outputFile, rowIndex,
                   total_urls, processed_urls, url, action, yandex, google,
                   lastResponse, results, calls>>

\* the missing-column branch does not return: the run goes on to the write
ReadHeader_no_return ==
    /\ pc = "read_header"
    /\ pc' = IF inputFile.header = <<>> THEN "exception"
             ELSE IF ~HasUrlColumn(fieldnames(inputFile)) THEN "write_output"
             ELSE "next_row"
    /\ total_urls' = 0
    /\ processed_urls' = 0
    /\ UNCHANGED <<SITE_URL, host_id, user_id, inputFile, outputFile, rowIndex,
                   url, action, yandex, google, lastResponse, results, calls>>

\* lines 235-248; with fieldnames None, line 243 raises TypeError (line 289)
ReadHeader ==
    /\ pc = "read_header"
    /\ pc' = IF inputFile.header = <<>> THEN "exception"
             ELSE IF ~HasUrlColumn(fieldnames(inputFile)) THEN "no_url_column"
             ELSE "next_row"
    /\ total_urls' = 0
    /\ processed_urls' = 0
    /\ UNCHANGED <<SITE_URL, host_id, user_id, inputFile, outputFile, rowIndex,
                   url, action, yandex, google, lastResponse, results, calls>>

\* lines 250-257: the reader yields the next row, or the loop ends.
\* None.strip() raises AttributeError, caught at line 288.
NextRow ==
    /\ pc = "next_row"
    /\ IF rowIndex = Len(inputFile.rows)
       THEN /\ pc' = "write_output"
            /\ UNCHANGED <<rowIndex, total_urls, url>>
       ELSE LET cell == RowGet(fieldnames(inputFile), inputFile.rows[rowIndex + 1])
            IN  /\ rowIndex' = rowIndex + 1
                /\ total_urls' = total_urls + 1
                /\ IF cell.isNone
                   THEN pc' = "exception" /\ url' = url
                   ELSE /\ url' = strip(cell.text)
                        /\ pc' = IF strip(cell.text) = <<>> THEN "next_row"
                                 ELSE "send_reindex_yandex"
    /\ UNCHANGED <<SITE_URL, host_id, user_id, inputFile, outputFile, processed_urls,
                   action, yandex, google, lastResponse, results, calls>>

\* line 260
SendReindexYandex ==
    /\ pc = "send_reindex_yandex"
    /\ \E resp \in RunYandexResponses :
         /\ yandex' = send_reindex_yandex(user_id, host_id, url, resp)
         /\ lastResponse' = [api |-> "yandex", resp |-> resp]
    /\ calls' = Append(calls, PostRecrawl(user_id, host_id, url))
    /\ pc' = "publish_url_google"
    /\ UNCHANGED <<SITE_URL, host_id, user_id, inputFile, outputFile, rowIndex,
                   total_urls, processed_urls, url, action, google, results>>

\* lines 261-276: the call, then the row is appended and counted.  An
\* exception out of publish_url_google is caught at line 288.
PublishUrlGoogle ==
    /\ pc = "publish_url_google"
    /\ \E resp \in RunGoogleResponses :
         LET r == publish_url_google(url, action, resp)
         IN  /\ lastResponse' = [api |-> "google", resp |-> resp]
             /\ calls' = calls \o GoogleCalls(url, action, resp)
             /\ IF r.raised
                THEN /\ pc' = "exception"
                     /\ UNCHANGED <<google, results, processed_urls>>
                ELSE /\ google' = Outcome(r.status, r.error)
                     /\ results' = Append(results, ResultRow(url, yandex, Outcome(r.status, r.error)))
                     /\ processed_urls' = processed_urls + 1
                     /\ pc' = "next_row"
    /\ UNCHANGED <<SITE_URL, host_id, user_id, inputFile, outputFile, rowIndex,
                   total_urls, url, action, yandex>>

\* lines 279-286; when open() raises, nothing is written (line 289)
WriteOutput ==
    /\ pc = "write_output"
    /\ \E opened \in BOOLEAN :
         IF opened
         THEN outputFile' = OutputWritten(results) /\ pc' = "done"
         ELSE outputFile' = outputFile /\ pc' = "exception"
    /\ UNCHANGED <<SITE_URL, host_id, user_id, inputFile, rowIndex, total_urls,
                   processed_urls, url, action, yandex, google, lastResponse,
                   results, calls>>

Next ==
    \/ BuildHostId
    \/ GetUserId
    \/ CheckInput
    \/ ReadHeader
    \/ NextRow
    \/ SendReindexYandex
    \/ PublishUrlGoogle
    \/ WriteOutput

Spec == Init /\ [][Next]_vars

-----------------------------------------------------------------------------
(* build_yandex_host_id on its own, over generated site URLs *)

SchemeParts ==
    {<<>>, https, http,
     <<"H", "T", "T", "P", "S">>,
     <<"f", "t", "p">>,
     <<"8", "a">>,
     <<"h", "_", "p">>}
SepParts == {<<>>, <<":">>, <<":", "/">>, <<":", "/", "/">>, <<"/", "/">>}
AuthChars == {"a", ":", "8", "@"}
TailParts == {<<>>, <<"/", "p">>, <<"?", "8">>, <<"#", "a", ":">>}

\* SITE_URL is never empty (lines 32-35)
SiteUrls ==
    {s \o m \o a \o t :
        s \in SchemeParts, m \in SepParts, a \in SeqsUpTo(AuthChars, MaxAuthLen), t \in TailParts}
    \ {<<>>}

InitHostId ==
    /\ pc = "build_host_id"
    /\ SITE_URL \in SiteUrls
    /\ host_id = <<>>
    /\ user_id = ""
    /\ inputFile = NoInputFile
    /\ outputFile = OutputAbsent
    /\ rowIndex = 0
    /\ total_urls = 0
    /\ processed_urls = 0
    /\ url = <<>>
    /\ action = URL_UPDATED
    /\ yandex = Outcome("", None)
    /\ google = Outcome("", None)
    /\ lastResponse = NoResponse
    /\ results = <<>>
    /\ calls = <<>>

NextHostId == BuildHostId

SpecHostId == InitHostId /\ [][NextHostId]_vars

-----------------------------------------------------------------------------
(* One submitter call on its own, over every modelled response and action *)

SubmitUrls == {<<"a">>, <<"b">>}

InitSubmit ==
    /\ pc = "call"
    /\ SITE_URL = https \o <<":", "/", "/", "a">>
    /\ host_id = build_yandex_host_id(https \o <<":", "/", "/", "a">>).value
    /\ user_id \in UserIds
    /\ inputFile = NoInputFile
    /\ outputFile = OutputAbsent
    /\ rowIndex = 0
    /\ total_urls = 0
    /\ processed_urls = 0
    /\ url \in SubmitUrls
    /\ action \in UpdateTypes
    /\ yandex = Outcome("", None)
    /\ google = Outcome("", None)
    /\ lastResponse = NoResponse
    /\ results = <<>>
    /\ calls = <<>>

\* send_reindex_yandex(user_id, host_id, url), lines 109-155
CallSendReindexYandex ==
    /\ pc = "call"
    /\ \E resp \in YandexResponses :
         /\ yandex' = send_reindex_yandex(user_id, host_id, url, resp)
         /\ lastResponse' = [api |-> "yandex", resp |-> resp]
    /\ calls' = Append(calls, PostRecrawl(user_id, host_id, url))
    /\ pc' = "returned"
    /\ UNCHANGED <<SITE_URL, host_id, user_id, inputFile, outputFile, rowIndex,
                   total_urls, processed_urls, url, action, google, results>>

\* publish_url_google(url, action), lines 158-211
CallPublishUrlGoogle ==
    /\ pc = "call"
    /\ \E resp \in GoogleResponses :
         LET r == publish_url_google(url, action, resp)
         IN  /\ lastResponse' = [api |-> "google", resp |-> resp]
             /\ calls' = calls \o GoogleCalls(url, action, resp)
             /\ google' = IF r.raised THEN google ELSE Outcome(r.status, r.error)
             /\ pc' = IF r.raised THEN "raised" ELSE "returned"
    /\ UNCHANGED <<SITE_URL, host_id, user_id, inputFile, outputFile, rowIndex,
                   total_urls, processed_urls, url, action, yandex, results>>

NextSubmit == CallSendReindexYandex \/ CallPublishUrlGoogle

SpecSubmit == InitSubmit /\ [][NextSubmit]_vars

-----------------------------------------------------------------------------
(* Vocabulary of the properties *)

Last(q) == q[Len(q)]

CallIndexes(names) == {i \in 1..Len(calls) : calls[i].call \in names}
CallCount(name) == Cardinality(CallIndexes({name}))
SubmissionCallNames == {"POST recrawl/queue", "token refresh", "POST urlNotifications:publish"}

\* s without its leading and trailing whitespace: from its first to its
\* last character that is not whitespace
Trimmed(s) ==
    LET solid == {k \in 1..Len(s) : s[k] \notin Whitespace}
    IN  IF solid = {} THEN <<>>
        ELSE SubSeq(s, CHOOSE k \in solid : \A m \in solid : k <= m,
                       CHOOSE k \in solid : \A m \in solid : k >= m)

NonEmpty(t) == t # <<>>

\* the column of the URL cells; only meant for files with a URL column
UrlCol == UrlColumn(fieldnames(inputFile))
UrlCellPresent(i) == UrlCol <= Len(inputFile.rows[i])
AllUrlCellsPresent == LET col == UrlCol IN \A i \in 1..Len(inputFile.rows) : col <= Len(inputFile.rows[i])

\* the trimmed URL cells of the input, in input order
TrimmedUrlCells == LET col == UrlCol IN [i \in 1..Len(inputFile.rows) |-> Trimmed(inputFile.rows[i][col])]
\* those of them that are not empty
ExpectedUrls == SelectSeq(TrimmedUrlCells, NonEmpty)
EmptyUrlRows == LET cells == TrimmedUrlCells IN {i \in 1..Len(cells) : cells[i] = <<>>}

ResultUrls(rows) == [i \in 1..Len(rows) |-> rows[i].URL]

\* the ways a Primary submission fails
PrimaryTransportOrHttpFailure(r) == r.kind \in {"conn_error", "http_error"}
PrimaryUnparsableBody(r) == r.kind = "ok" /\ ~r.json
\* the decoded body is a JSON object with the field
PrimaryErrorField(r) ==
    r.kind = "ok" /\ r.json /\ r.body.shape = JsonObject /\ r.body.error # Absent
PrimaryTaskId(r) ==
    r.kind = "ok" /\ r.json /\ r.body.shape = JsonObject /\ r.body.task_id # Absent
PrimaryFailure(r) ==
    PrimaryTransportOrHttpFailure(r) \/ PrimaryUnparsableBody(r) \/ PrimaryErrorField(r)

SecondaryTransportOrHttpFailure(r) == r.token /\ r.kind \in {"conn_error", "http_error"}
\* a response arrived with a success status
SecondaryReceived(r) == r.token /\ r.kind = "ok"

TokenFailed == lastResponse.api = "google" /\ ~lastResponse.resp.token

InLoopOrAfter == pc \in {"next_row", "send_reindex_yandex", "publish_url_google",
                        "write_output", "done", "exception"}

-----------------------------------------------------------------------------
(* C1 *)

\* C1: when the bearer token cannot be obtained during the Secondary
\* submission of a URL, that submission alone counts as failed: a result row
\* with Secondary status Failure is appended for the URL and the run goes on
\* (it does not leave the loop through the exception handler).
C1_TokenFailureIsLocal ==
    TokenFailed =>
        /\ pc # "exception"
        /\ results # <<>>
        /\ Last(results).URL = url
        /\ Last(results).Google_Status = NEUSPESHNO

-----------------------------------------------------------------------------
(* C2 *)

\* why a run can be in the exception handler of line 288: the file is empty,
\* the current row has no URL cell, the token refresh raised, or the output
\* file could not be opened after every row was handled
ExceptionCause ==
    \/ inputFile.header = <<>>
    \/ rowIndex >= 1 /\ ~UrlCellPresent(rowIndex)
    \/ TokenFailed
    \/ /\ rowIndex = Len(inputFile.rows)
       /\ AllUrlCellsPresent
       /\ ResultUrls(results) = ExpectedUrls

PrimaryStep ==
    pc = "send_reindex_yandex" =>
        /\ pc' = "publish_url_google"
        /\ url' = url
        /\ Last(calls') = PostRecrawl(user_id, host_id, url)
        /\ (PrimaryFailure(lastResponse'.resp) =>
                yandex'.status = NEUSPESHNO /\ yandex'.error # None)

SecondaryStep ==
    pc = "publish_url_google" =>
        /\ calls'[Len(calls) + 1] = TokenRefresh
        /\ (lastResponse'.resp.token =>
                /\ calls' = calls \o <<TokenRefresh, PostPublish(url, action)>>
                /\ Len(results') = Len(results) + 1
                /\ SubSeq(results', 1, Len(results)) = results
                /\ Last(results').URL = url
                /\ Last(results').Yandex_Status = yandex.status
                /\ (yandex.status = NEUSPESHNO => Last(results').Yandex_Error = yandex.error)
                /\ (SecondaryTransportOrHttpFailure(lastResponse'.resp) =>
                        /\ Last(results').Google_Status = NEUSPESHNO
                        /\ Last(results').Google_Error # EmptyStr)
                /\ pc' = "next_row"
                /\ rowIndex' = rowIndex)

LoopStep ==
    pc = "next_row" /\ rowIndex < Len(inputFile.rows) => rowIndex' = rowIndex + 1

\* C2: however the Primary submission of a URL fails (transport error, HTTP
\* error status, undecodable body, error field), send_reindex_yandex returns
\* a Failure outcome and does not raise; the Secondary submitter is then
\* called for the same URL; a Secondary transport or HTTP failure is
\* recorded as Failure in the appended row; and after the row the loop takes
\* the next input row.  The exception handler is never reached because of a
\* submission failure of either kind.
C2_SubmissionFailuresDoNotStopTheLoop ==
    /\ [](pc = "exception" => ExceptionCause)
    /\ [][PrimaryStep /\ SecondaryStep /\ LoopStep]_vars

\* a run that ended with two rows, the first failed at both engines
C2_Witness ==
    /\ pc = "done"
    /\ Len(results) = 2
    /\ results[1].Yandex_Status = NEUSPESHNO
    /\ results[1].Google_Status = NEUSPESHNO
    /\ outputFile = OutputWritten(results)

-----------------------------------------------------------------------------
(* C3 *)

\* C3: when the run reaches the write (every row had a URL cell), the result
\* rows are exactly the trimmed non-empty URLs of the input in input order,
\* one row each and none for an empty or whitespace-only URL; the rows
\* skipped plus the rows processed are the rows read; and what is written is
\* that sequence.
C3_OneResultRowPerNonEmptyUrlInOrder ==
    (pc \in {"write_output", "done"} /\ AllUrlCellsPresent) =>
        /\ ResultUrls(results) = ExpectedUrls
        /\ total_urls = Len(inputFile.rows)
        /\ processed_urls = Len(results)
        /\ Cardinality(EmptyUrlRows) + processed_urls = total_urls
        /\ (pc = "done" => outputFile = OutputWritten(results))

\* a whitespace-only URL was skipped and a padded one was trimmed and kept
C3_Witness ==
    /\ pc = "done"
    /\ inputFile.rows = <<<<<<" ">>>>, <<<<" ", "b", " ">>>>>>
    /\ ResultUrls(outputFile.rows) = <<<<"b">>>>
    /\ total_urls = 2
    /\ processed_urls = 1

-----------------------------------------------------------------------------
(* C4 *)

\* C4: a row that has no cell in the URL column is skipped like an empty
\* URL: the loop goes on, the exception handler is not entered.
C4_MissingUrlCellIsSkipped ==
    (InLoopOrAfter /\ rowIndex >= 1 /\ ~UrlCellPresent(rowIndex)) => pc # "exception"

-----------------------------------------------------------------------------
(* C5 *)

FatalEarlyError ==
    \/ pc = "init_failed"
    \/ ~inputFile.exists
    \/ inputFile.header # <<>> /\ ~HasUrlColumn(fieldnames(inputFile))

\* C5: when identity resolution fails, the input file is missing, or the
\* trimmed header has no URL column, the output file is never opened for
\* writing: an absent file stays absent and an old one keeps its content.
C5_FatalEarlyErrorLeavesOutputUntouched ==
    /\ outputFile.state = "written" => pc \in {"done"}
    /\ FatalEarlyError =>
        /\ pc \notin {"write_output", "done"}
        /\ outputFile \in {OutputAbsent, OutputOld}
        /\ results = <<>>

\* a run aborted for want of a URL column, with an old output file in place
C5_Witness ==
    /\ pc = "no_url_column"
    /\ outputFile = OutputOld

-----------------------------------------------------------------------------
(* C6 *)

\* C6: the host id and the user id are each resolved at most once (the
\* host id as the first call of the run, the user id as the second), and
\* exactly once, before anything else, in every run that reads a row or
\* submits a URL; every Primary submission is passed that same pair; when
\* either resolution fails nothing is submitted (the run made no third
\* call) and no row is read.
C6_IdentityResolvedOnceBeforeSubmissions ==
    /\ \A i \in 1..Len(calls) :
        /\ calls[i].call = "build_yandex_host_id" => i = 1
        /\ calls[i].call = "GET /user" => i = 2
        /\ calls[i].call \in SubmissionCallNames =>
            /\ calls[1] = BuildHostIdCall
            /\ calls[2] = GetUser
            /\ user_id \in UserIds
        /\ calls[i].call = "POST recrawl/queue" =>
            /\ calls[i].user_id = user_id
            /\ calls[i].host_id = host_id
    /\ (Len(calls) >= 3 \/ rowIndex > 0) =>
        /\ calls[1] = BuildHostIdCall
        /\ calls[2] = GetUser
        /\ user_id \in UserIds
        /\ build_yandex_host_id(SITE_URL) = Returned(host_id)
    /\ pc = "init_failed" =>
        /\ Len(calls) <= 2
        /\ rowIndex = 0
        /\ results = <<>>

\* two URLs were submitted to the Primary API
C6_Witness ==
    /\ CallCount("POST recrawl/queue") = 2
    /\ CallCount("GET /user") = 1
    /\ pc = "done"

-----------------------------------------------------------------------------
(* C7 *)

\* C7 as claimed: the input file is looked for before identity resolution,
\* so a run whose input file is missing never calls the identity endpoint.
C7_MissingInputAbortsBeforeIdentity ==
    ~inputFile.exists => CallCount("GET /user") = 0

\* C7 as amended: identity resolution comes first.  The existence of the
\* input file is looked at only after the host id was built and the user id
\* fetched; a run whose input file is missing ends at that check, having
\* made exactly those two calls, with no row read, nothing submitted and the
\* output file untouched.
C7_IdentityResolvedBeforeInputCheck ==
    /\ pc \notin {"build_host_id", "get_user_id", "init_failed"} =>
        /\ Len(calls) >= 2
        /\ calls[1] = BuildHostIdCall
        /\ calls[2] = GetUser
        /\ user_id \in UserIds
    /\ pc = "no_input_file" =>
        /\ ~inputFile.exists
        /\ calls = <<BuildHostIdCall, GetUser>>
        /\ rowIndex = 0
        /\ outputFile \in {OutputAbsent, OutputOld}
    /\ ~inputFile.exists =>
        pc \in {"build_host_id", "get_user_id", "init_failed", "check_input", "no_input_file"}

\* the run stopped at the missing input file after the identity call
C7_Witness ==
    /\ pc = "no_input_file"
    /\ CallCount("GET /user") = 1

-----------------------------------------------------------------------------
(* C8 *)

PrimaryReturned == pc = "returned" /\ lastResponse.api = "yandex"

\* the decoded body is JSON null, a number or a boolean
PrimaryScalarBody(r) == r.kind = "ok" /\ r.json /\ r.body.shape \in JsonScalars

\* the decoded body holds the name: as a key of an object, an element of an
\* array or a substring of a string
PrimaryHoldsError(r) ==
    r.kind = "ok" /\ r.json /\ r.body.shape \notin JsonScalars /\ r.body.error # Absent
PrimaryHoldsTaskId(r) ==
    r.kind = "ok" /\ r.json /\ r.body.shape \notin JsonScalars /\ r.body.task_id # Absent

\* C8 as claimed: transport/HTTP failure gives Failure; else a body with an
\* error field gives Failure with the field in the detail; else a body with
\* a task id gives Success; anything else gives SuccessNoConfirmation; the
\* detail is None exactly when the status is not Failure.
C8_PrimaryClassificationAsClaimed ==
    PrimaryReturned =>
        LET r == lastResponse.resp
        IN  /\ yandex.status =
                IF PrimaryTransportOrHttpFailure(r) THEN NEUSPESHNO
                ELSE IF PrimaryErrorField(r) THEN NEUSPESHNO
                ELSE IF PrimaryTaskId(r) THEN USPESHNO
                ELSE USPESHNO_BEZ_TASK_ID
            /\ (PrimaryErrorField(r) => yandex.error = <<"Oshibka API: ", r.body.error>>)
            /\ (yandex.error = None <=> yandex.status # NEUSPESHNO)

\* C8 as amended: the first rule also covers a body that cannot be decoded
\* and a body that decodes to null, a number or a boolean, and the field
\* rules say what the code does with a body that is not an object.
\* Transport/HTTP failure, an undecodable body or a null, number or boolean
\* body gives Failure; else a body holding "error" (key of an object,
\* element of an array, substring of a string) gives Failure whatever else
\* the body holds, the detail carrying the field when the body is an object
\* and the exception text when it is not; else a body holding "task_id" in
\* the same sense gives Success; anything else gives SuccessNoConfirmation;
\* the detail is None exactly when the status is not Failure.
C8_PrimaryClassification ==
    PrimaryReturned =>
        LET r == lastResponse.resp
        IN  /\ yandex.status =
                IF \/ PrimaryTransportOrHttpFailure(r)
                   \/ PrimaryUnparsableBody(r)
                   \/ PrimaryScalarBody(r)
                THEN NEUSPESHNO
                ELSE IF PrimaryHoldsError(r) THEN NEUSPESHNO
                ELSE IF PrimaryHoldsTaskId(r) THEN USPESHNO
                ELSE USPESHNO_BEZ_TASK_ID
            /\ (PrimaryErrorField(r) => yandex.error = <<"Oshibka API: ", r.body.error>>)
            /\ (PrimaryHoldsError(r) /\ ~PrimaryErrorField(r) =>
                    yandex.error = StrExc("TypeError"))
            /\ (PrimaryUnparsableBody(r) => yandex.error = StrExc("JSONDecodeError"))
            /\ (PrimaryScalarBody(r) => yandex.error = StrExc("TypeError"))
            /\ (yandex.error = None <=> yandex.status # NEUSPESHNO)

\* a body with both an error field and a task id was classified Failure
C8_Witness ==
    /\ PrimaryReturned
    /\ PrimaryErrorField(lastResponse.resp)
    /\ PrimaryTaskId(lastResponse.resp)
    /\ yandex = Outcome(NEUSPESHNO, <<"Oshibka API: ", lastResponse.resp.body.error>>)

-----------------------------------------------------------------------------
(* C9 *)

SecondaryReturned == pc = "returned" /\ lastResponse.api = "google"

Embeds(detail, word) == \E i \in 1..Len(detail) : detail[i] = word

GenericFormatFailure == Outcome(NEUSPESHNO, <<"Neozhidannyy format otveta ot Google API">>)

\* the response carries the urlNotificationMetadata envelope: its body
\* decodes to an object that has the key
EnvelopePresent(r) == r.json /\ r.body.shape = JsonObject /\ r.body.metadata # Absent

\* the latest update type the envelope carries, Absent when it carries none:
\* the envelope is an object whose latestUpdate is an object with a type
LatestType(r) ==
    IF /\ EnvelopePresent(r)
       /\ r.body.metadata = JsonObject
       /\ r.body.latestUpdate = JsonObject
    THEN r.body.type
    ELSE Absent

\* looking a key up in a value fails: the value is null, a number or a
\* boolean, or it is an array or a string that holds the key's name
LookupFails(shape, found) ==
    \/ shape \in JsonScalars
    \/ shape \in {JsonArray, JsonString} /\ found # Absent

\* one of the three lookups made on a decoded body fails
SomeLookupFails(b) ==
    \/ LookupFails(b.shape, b.metadata)
    \/ LookupFails(b.metadata, b.latestUpdate)
    \/ LookupFails(b.latestUpdate, b.type)

\* C9 as claimed: for any requested action, a response received with a
\* success status is classified Failure with the generic unexpected-format
\* detail when the envelope is absent; Failure with a detail naming both
\* the requested action and the actual type when the latest update type
\* differs from the action; Success when the type equals the action or the
\* envelope carries no latest update type.
C9_SecondaryClassificationAsClaimed ==
    (SecondaryReturned /\ SecondaryReceived(lastResponse.resp)) =>
        LET r == lastResponse.resp
            t == LatestType(r)
        IN  /\ (~EnvelopePresent(r) => google = GenericFormatFailure)
            /\ (EnvelopePresent(r) /\ t # Absent /\ t # action =>
                    /\ google.status = NEUSPESHNO
                    /\ Embeds(google.error, action)
                    /\ Embeds(google.error, t))
            /\ (EnvelopePresent(r) /\ (t = Absent \/ t = action) =>
                    google = Outcome(USPESHNO, None))

\* C9 as amended: the three rules hold of a body that decodes and on which
\* every lookup works; the other received responses are failures with the
\* exception text.  For any requested action, a response received with a
\* success status is classified Failure with the decoder's exception text
\* when the body cannot be decoded; Failure with the exception text when a
\* lookup fails on the body, on the envelope or on its latest update;
\* otherwise Failure with the generic unexpected-format detail when the
\* envelope is absent, Failure with a detail naming both the requested
\* action and the actual type when the latest update type differs from the
\* action, and Success when the type equals the action or the envelope
\* carries no latest update type.
C9_SecondaryClassification ==
    (SecondaryReturned /\ SecondaryReceived(lastResponse.resp)) =>
        LET r == lastResponse.resp
            b == r.body
        IN  IF ~r.json
            THEN google = Outcome(NEUSPESHNO, StrExc("JSONDecodeError"))
            ELSE IF SomeLookupFails(b)
            THEN google = Outcome(NEUSPESHNO, StrExc("TypeError"))
            ELSE /\ (b.metadata = Absent => google = GenericFormatFailure)
                 /\ (b.metadata # Absent /\ b.type # Absent /\ b.type # action =>
                        /\ google.status = NEUSPESHNO
                        /\ Embeds(google.error, action)
                        /\ Embeds(google.error, b.type))
                 /\ (b.metadata # Absent /\ (b.type = Absent \/ b.type = action) =>
                        google = Outcome(USPESHNO, None))

\* URL_DELETED was requested and the latest update is URL_UPDATED
C9_Witness ==
    /\ SecondaryReturned
    /\ SecondaryReceived(lastResponse.resp)
    /\ action = URL_DELETED
    /\ LatestType(lastResponse.resp) = URL_UPDATED
    /\ google.status = NEUSPESHNO
    /\ Embeds(google.error, URL_DELETED)
    /\ Embeds(google.error, URL_UPDATED)

-----------------------------------------------------------------------------
(* C10 *)

ValidSchemeParts == {s \in SchemeParts : s # <<>> /\ s[1] \in Letters /\ \A i \in 1..Len(s) : s[i] \in scheme_chars}

PortOf(scheme) == IF scheme = https THEN Port443 ELSE Port80

\* C10: for a site URL with a scheme and an authority the host id is exactly
\* scheme ":" authority ":" port, the port being 443 for https and 80 for
\* any other scheme whatever port the URL writes; without a scheme or
\* without an authority the call raises and no host id is produced.  The
\* second conjunct says the same of URLs put together as
\* scheme "://" authority tail.
C10_HostIdFromSchemeAndAuthority ==
    pc # "build_host_id" =>
        /\ LET p == urlparse(SITE_URL)
           IN  IF p.scheme # <<>> /\ p.netloc # <<>>
               THEN /\ pc = "get_user_id"
                    /\ host_id = p.scheme \o <<":">> \o p.netloc \o <<":">> \o PortOf(p.scheme)
               ELSE /\ pc = "init_failed"
                    /\ host_id = <<>>
        /\ \A s \in ValidSchemeParts, t \in TailParts :
             LET a == SubSeq(SITE_URL, Len(s) + 4, Len(SITE_URL) - Len(t))
             IN  (/\ a # <<>>
                  /\ \A i \in 1..Len(a) : a[i] \in AuthChars
                  /\ SITE_URL = s \o <<":", "/", "/">> \o a \o t)
                 => host_id = lower(s) \o <<":">> \o a \o <<":">> \o PortOf(lower(s))

\* an http URL that writes port 8 still gets port 80
C10_Witness ==
    /\ pc = "get_user_id"
    /\ SITE_URL = http \o <<":", "/", "/", "a", ":", "8", "/", "p">>
    /\ host_id = http \o <<":", "a", ":", "8", ":">> \o Port80

====
